---- MODULE Spec2Model ----
(***************************************************************************)
(* lockfree::lockfree_circulation_buffer<T, N>                             *)
(* (include/lockfree/lockfree_circulation_buffer.hpp).                     *)
(*                                                                         *)
(* The shared state is the atomic 32-bit word rpwp_ and the slot array     *)
(* elements_.  TLC integers are 32-bit signed, so the uint32_t word is     *)
(* kept as the pair <<high 16 bits, low 16 bits>>; every mask, shift and   *)
(* bitwise operator of the source is computed bit by bit on that pair.     *)
(* Every public operation is a load of rpwp_ followed by iterations of     *)
(* its do/while loop; one iteration (the checks on `expected`, the         *)
(* computation of `desired` and the compare_exchange_weak) is one atomic   *)
(* step, because only the compare-exchange touches shared memory.  The     *)
(* compare-exchange is sequentially consistent (no memory order is passed) *)
(* and the load is an acquire, so the steps of the threads interleave in   *)
(* one order and a slot access made before an unlock is seen after it.     *)
(***************************************************************************)
EXTENDS Integers, Sequences, FiniteSets, TLC

\* template argument N (a power of two, 2 <= N <= 32768)
N == 4

\* largest min_free / min_remains argument the clients pass
MaxMin == 2

\* number of values the producer writes into slots in one run
MaxVal == 6

\* number of values written in the write phase of a round trip
MaxK == 3

\* the count of failed compare-exchanges of one call stops at this number
MaxRetry == 1

Threads == {"producer", "consumer"}

INVALID_INDEX == 65535

\* value of a slot no one has written yet (T elements_[N] is not initialised);
\* no write produces it, so a read of an unwritten slot is always noticed
Garbage == 0

(***************************************************************************)
(* uint32_t arithmetic on <<hi, lo>>                                       *)
(***************************************************************************)
BitAnd16(a, b) ==
    LET and[p \in 0..65535, q \in 0..65535] ==
            IF p = 0 \/ q = 0 THEN 0
            ELSE (p % 2) * (q % 2) + 2 * and[p \div 2, q \div 2]
    IN  and[a, b]

BitOr16(a, b) ==
    LET or[p \in 0..65535, q \in 0..65535] ==
            IF p = 0 THEN q
            ELSE IF q = 0 THEN p
            ELSE (IF p % 2 = 1 \/ q % 2 = 1 THEN 1 ELSE 0) + 2 * or[p \div 2, q \div 2]
    IN  or[a, b]

And32(x, y) == <<BitAnd16(x[1], y[1]), BitAnd16(x[2], y[2])>>

Or32(x, y) == <<BitOr16(x[1], y[1]), BitOr16(x[2], y[2])>>

Not32(x) == <<65535 - x[1], 65535 - x[2]>>

\* x >> 16U
Shr16(x) == <<0, x[1]>>

\* v << 16U for a uint16_t v
Shl16(v) == <<v % 65536, 0>>

\* v << 0U for a uint16_t v
Shl0(v) == <<0, v % 65536>>

\* static_cast<index_t>(x): the low 16 bits
ToIndex(x) == x[2]

Zero32 == <<0, 0>>

WRITE_POINTER_MASK == <<0, 32767>>

WRITE_LOCK_BIT_MASK == <<0, 32768>>

READ_POINTER_MASK == <<32767, 0>>

READ_LOCK_BIT_MASK == <<32768, 0>>

(***************************************************************************)
(* private static helpers                                                  *)
(***************************************************************************)
write_pointer(x) == ToIndex(And32(x, WRITE_POINTER_MASK))

is_write_locked(x) == And32(x, WRITE_LOCK_BIT_MASK) # Zero32

read_pointer(x) == ToIndex(Shr16(And32(x, READ_POINTER_MASK)))

is_read_locked(x) == And32(x, READ_LOCK_BIT_MASK) # Zero32

\* next_pointer with a fault: advances by two slots
next_pointer_skip(x) == ((x + 2) % N) % 65536

\* next_pointer with a fault: the % N is missing
next_pointer_nowrap(x) == (x + 1) % 65536

next_pointer(x) == ((x + 1) % N) % 65536

mod_write_pointer(x, wp) == Or32(And32(x, Not32(WRITE_POINTER_MASK)), Shl0(wp))

mod_read_pointer(x, rp) == Or32(And32(x, Not32(READ_POINTER_MASK)), Shl16(rp))

mod_write_locked(x, locked) ==
    IF locked THEN Or32(x, WRITE_LOCK_BIT_MASK)
    ELSE And32(x, Not32(WRITE_LOCK_BIT_MASK))

mod_read_locked(x, locked) ==
    IF locked THEN Or32(x, READ_LOCK_BIT_MASK)
    ELSE And32(x, Not32(READ_LOCK_BIT_MASK))

\* count with a fault: the wrapped case is rp - wp
count_nowrap(x) ==
    LET rp == read_pointer(x)
        wp == write_pointer(x)
    IN  IF wp >= rp THEN wp - rp ELSE rp - wp

count(x) ==
    LET rp == read_pointer(x)
        wp == write_pointer(x)
    IN  IF wp >= rp THEN wp - rp ELSE N - rp + wp

capacity == N - 1

\* const uint32_t rpwp = rpwp_; return read_pointer(rpwp) == write_pointer(rpwp)
empty(w) == read_pointer(w) = write_pointer(w)

size(w) == count(w)

full(w) == size(w) = capacity

(***************************************************************************)
(* One pass through the body of each do/while loop, up to the              *)
(* compare-exchange: either `break` with result = false, or a `desired`.   *)
(***************************************************************************)
Break == [go |-> FALSE, desired |-> Zero32]

Try(d) == [go |-> TRUE, desired |-> d]

\* free_count > min_free, where free_count = (N - 1) - count(expected) is a
\* size_t: were count to exceed N - 1 the difference would wrap to a value
\* above every min_free a client passes
free_count_gt(expected, min_free) ==
    IF count(expected) <= N - 1
    THEN (N - 1) - count(expected) > min_free
    ELSE TRUE

\* lock_write with a fault: free_count >= min_free
lock_write_body_ge(expected, min_free) ==
    IF is_write_locked(expected) THEN Break
    ELSE IF ~((N - 1) - count(expected) >= min_free) THEN Break
    ELSE Try(mod_write_locked(expected, TRUE))

\* lock_write with a fault: is_write_locked is not checked
lock_write_body_nocheck(expected, min_free) ==
    IF ~free_count_gt(expected, min_free) THEN Break
    ELSE Try(mod_write_locked(expected, TRUE))

lock_write_body(expected, min_free) ==
    IF is_write_locked(expected) THEN Break
    ELSE IF ~free_count_gt(expected, min_free) THEN Break
    ELSE Try(mod_write_locked(expected, TRUE))

\* unlock_write with a fault: a commit advances the pointer but keeps the lock bit
unlock_write_body_keeplock(expected, index, commit) ==
    IF index # write_pointer(expected) THEN Break
    ELSE IF ~is_write_locked(expected) THEN Break
    ELSE IF commit
         THEN Try(mod_write_pointer(expected, next_pointer(write_pointer(expected))))
         ELSE Try(mod_write_locked(expected, FALSE))

\* unlock_write with a fault: is_write_locked is not checked
unlock_write_body_nolockcheck(expected, index, commit) ==
    IF index # write_pointer(expected) THEN Break
    ELSE LET d == IF commit
                  THEN mod_write_pointer(expected, next_pointer(write_pointer(expected)))
                  ELSE expected
         IN  Try(mod_write_locked(d, FALSE))

\* unlock_write with a fault: the pointer advances whether or not commit is set
unlock_write_body_nocommitflag(expected, index, commit) ==
    IF index # write_pointer(expected) THEN Break
    ELSE IF ~is_write_locked(expected) THEN Break
    ELSE Try(mod_write_locked(
                 mod_write_pointer(expected, next_pointer(write_pointer(expected))),
                 FALSE))

unlock_write_body(expected, index, commit) ==
    IF index # write_pointer(expected) THEN Break
    ELSE IF ~is_write_locked(expected) THEN Break
    ELSE LET d == IF commit
                  THEN mod_write_pointer(expected, next_pointer(write_pointer(expected)))
                  ELSE expected
         IN  Try(mod_write_locked(d, FALSE))

\* lock_read with a fault: count >= min_remains
lock_read_body_ge(expected, min_remains) ==
    IF is_read_locked(expected) THEN Break
    ELSE IF ~(count(expected) >= min_remains) THEN Break
    ELSE Try(mod_read_locked(expected, TRUE))

lock_read_body(expected, min_remains) ==
    IF is_read_locked(expected) THEN Break
    ELSE IF ~(count(expected) > min_remains) THEN Break
    ELSE Try(mod_read_locked(expected, TRUE))

unlock_read_body(expected, index, commit) ==
    IF index # read_pointer(expected) THEN Break
    ELSE IF ~is_read_locked(expected) THEN Break
    ELSE LET d == IF commit
                  THEN mod_read_pointer(expected, next_pointer(read_pointer(expected)))
                  ELSE expected
         IN  Try(mod_read_locked(d, FALSE))

\* try_clear with a fault: read_locked is not checked
try_clear_body_noreadcheck(expected) ==
    IF ~is_write_locked(expected)
    THEN Try(mod_read_pointer(expected, write_pointer(expected)))
    ELSE Break

try_clear_body(expected) ==
    IF ~is_write_locked(expected) /\ ~is_read_locked(expected)
    THEN Try(mod_read_pointer(expected, write_pointer(expected)))
    ELSE Break

(***************************************************************************)
(* State                                                                   *)
(***************************************************************************)
VARIABLES
    rpwp,       \* rpwp_
    elements,   \* elements_[N]
    pc,         \* per thread: "idle", "loop" (before a compare-exchange), "done" (returned)
    op,         \* per thread: the operation called last
    expected,   \* per thread: the local `expected`
    result,     \* per thread: the value the last call returned
    index,      \* per thread: the caller's index variable (out of lock_*, in to unlock_*)
    commit,     \* per thread: the commit argument of the last unlock_*
    minarg,     \* per thread: the min_free / min_remains argument of the last lock_*
    net,        \* committed writes minus committed reads since the last clear
    stage,      \* per thread: where the caller is in its reservation cycle
    nextVal,    \* the next value the producer stores
    got,        \* the value the consumer loaded from its reserved slot
    committed,  \* values of committed writes, in commit order
    received,   \* values of committed reads, in commit order
    before,     \* per thread: the word on which the lock_* of its reservation succeeded
    phase,      \* round trip: "free", "write", "read", "done"
    mark,       \* round trip: what was queued and committed when the write phase began
    retries,    \* per thread: failed compare-exchanges of the call in progress (up to MaxRetry)
    dirty,      \* per thread: another thread changed rpwp_ since this call last read it
    clearing,   \* per thread: the thread is inside clear()
    value       \* per thread: the size_t the last size() or capacity() returned

wordVars == <<rpwp, pc, op, expected, result, index, commit, minarg, net>>

dataVars == <<elements, stage, nextVal, got, committed, received, before>>

tripVars == <<phase, mark>>

loopVars == <<retries, dirty, clearing>>

snapVars == <<value>>

vars == <<rpwp, elements, pc, op, expected, result, index, commit, minarg, net,
          stage, nextVal, got, committed, received, before, phase, mark,
          retries, dirty, clearing, value>>

Init ==
    /\ rpwp = Zero32
    /\ elements = [i \in 0..(N - 1) |-> Garbage]
    /\ pc = [t \in Threads |-> "idle"]
    /\ op = [t \in Threads |-> "none"]
    /\ expected = [t \in Threads |-> Zero32]
    /\ result = [t \in Threads |-> FALSE]
    /\ index = [t \in Threads |-> INVALID_INDEX]
    /\ commit = [t \in Threads |-> FALSE]
    /\ minarg = [t \in Threads |-> 0]
    /\ net = 0
    /\ stage = [t \in Threads |-> "none"]
    /\ nextVal = 1
    /\ got = Garbage
    /\ committed = <<>>
    /\ received = <<>>
    /\ before = [t \in Threads |-> Zero32]
    /\ phase = "free"
    /\ mark = [queued |-> <<>>, base |-> 0, rbase |-> 0, k |-> 0]
    /\ retries = [t \in Threads |-> 0]
    /\ dirty = [t \in Threads |-> FALSE]
    /\ clearing = [t \in Threads |-> FALSE]
    /\ value = [t \in Threads |-> 0]

(***************************************************************************)
(* The loop body, the value left in the caller's index variable and the    *)
(* change of the number of committed items, by operation.                  *)
(***************************************************************************)
BodyOf(o, e, i, c, m) ==
    CASE o = "lock_write"   -> lock_write_body(e, m)
      [] o = "unlock_write" -> unlock_write_body(e, i, c)
      [] o = "lock_read"    -> lock_read_body(e, m)
      [] o = "unlock_read"  -> unlock_read_body(e, i, c)
      [] o = "try_clear"    -> try_clear_body(e)

\* index = write_pointer(desired) / read_pointer(desired) after a lock_*
IndexOnSuccess(o, d, i) ==
    CASE o = "lock_write" -> write_pointer(d)
      [] o = "lock_read"  -> read_pointer(d)
      [] OTHER            -> i

\* index = INVALID_INDEX after a failed lock_*
IndexOnFailure(o, i) ==
    IF o \in {"lock_write", "lock_read"} THEN INVALID_INDEX ELSE i

\* the committed items after the compare-exchange of operation o succeeded
NetAfter(o, c) ==
    CASE o = "unlock_write" /\ c -> net + 1
      [] o = "unlock_read" /\ c  -> net - 1
      [] o = "try_clear"         -> 0
      [] OTHER                   -> net

(***************************************************************************)
(* The steps of an operation.  Only the load and the compare-exchange      *)
(* touch shared memory, so the local code that follows each of them is     *)
(* part of the same step:                                                  *)
(*   Call: the arguments are bound, result = true, expected = rpwp_.load,  *)
(*         and the checks of the first pass run; if they break, the call   *)
(*         returns false at once, otherwise it stands before its           *)
(*         compare-exchange (pc = "loop");                                 *)
(*   Cas:  compare_exchange_weak(expected, desired); on success the call   *)
(*         returns true; on failure expected = rpwp_ and the checks of the *)
(*         next pass run, as in Call; a spurious failure of the weak       *)
(*         compare-exchange reloads the same word and repeats the pass,    *)
(*         which leaves every variable as it was;                          *)
(*   Resume: the caller has taken the returned value (pc = "done") and is  *)
(*         ready for its next call; the locals and arguments of the call   *)
(*         are gone.                                                       *)
(***************************************************************************)
ReturnFalse(t, o, i) ==
    /\ pc' = [pc EXCEPT ![t] = "done"]
    /\ result' = [result EXCEPT ![t] = FALSE]
    /\ index' = [index EXCEPT ![t] = IndexOnFailure(o, i)]
    /\ expected' = [expected EXCEPT ![t] = Zero32]

\* the next pass with a fault: expected is not refreshed from rpwp_
NextPass_noreload(t, i) ==
    /\ pc' = [pc EXCEPT ![t] = "loop"]
    /\ result' = [result EXCEPT ![t] = TRUE]
    /\ index' = [index EXCEPT ![t] = i]
    /\ expected' = expected

NextPass(t, i) ==
    /\ pc' = [pc EXCEPT ![t] = "loop"]
    /\ result' = [result EXCEPT ![t] = TRUE]
    /\ index' = [index EXCEPT ![t] = i]
    /\ expected' = [expected EXCEPT ![t] = rpwp]

Enter(t, o, i, c, m) ==
    /\ op' = [op EXCEPT ![t] = o]
    /\ commit' = [commit EXCEPT ![t] = c]
    /\ minarg' = [minarg EXCEPT ![t] = m]
    /\ IF BodyOf(o, rpwp, i, c, m).go THEN NextPass(t, i) ELSE ReturnFalse(t, o, i)
    /\ UNCHANGED <<rpwp, net>>

Call(t, o, i, c, m) ==
    /\ pc[t] = "idle"
    /\ Enter(t, o, i, c, m)

\* the compare-exchange with a fault: desired is stored without comparing
Cas_store(t, o) ==
    /\ pc[t] = "loop"
    /\ op[t] = o
    /\ LET desired == BodyOf(o, expected[t], index[t], commit[t], minarg[t]).desired
       IN  /\ rpwp' = desired
           /\ pc' = [pc EXCEPT ![t] = "done"]
           /\ result' = [result EXCEPT ![t] = TRUE]
           /\ index' = [index EXCEPT ![t] = IndexOnSuccess(o, desired, index[t])]
           /\ expected' = [expected EXCEPT ![t] = Zero32]
           /\ net' = NetAfter(o, commit[t])
    /\ UNCHANGED <<op, commit, minarg>>

Cas(t, o) ==
    /\ pc[t] = "loop"
    /\ op[t] = o
    /\ IF rpwp = expected[t]
       THEN LET desired == BodyOf(o, expected[t], index[t], commit[t], minarg[t]).desired
            IN  /\ rpwp' = desired
                /\ pc' = [pc EXCEPT ![t] = "done"]
                /\ result' = [result EXCEPT ![t] = TRUE]
                /\ index' = [index EXCEPT ![t] = IndexOnSuccess(o, desired, index[t])]
                /\ expected' = [expected EXCEPT ![t] = Zero32]
                /\ net' = NetAfter(o, commit[t])
       ELSE /\ IF BodyOf(o, rpwp, index[t], commit[t], minarg[t]).go
               THEN NextPass(t, index[t])
               ELSE ReturnFalse(t, o, index[t])
            /\ UNCHANGED <<rpwp, net>>
    /\ UNCHANGED <<op, commit, minarg>>

Resume(t, i) ==
    /\ pc[t] = "done"
    /\ pc' = [pc EXCEPT ![t] = "idle"]
    /\ op' = [op EXCEPT ![t] = "none"]
    /\ result' = [result EXCEPT ![t] = FALSE]
    /\ commit' = [commit EXCEPT ![t] = FALSE]
    /\ minarg' = [minarg EXCEPT ![t] = 0]
    /\ index' = [index EXCEPT ![t] = i]
    /\ UNCHANGED <<rpwp, expected, net>>

(***************************************************************************)
(* Clients.  The buffer is single-producer, single-consumer (line 25): the *)
(* write-side operations are called by the producer thread and the         *)
(* read-side operations by the consumer thread; either may call try_clear. *)
(* Apart from that a client is unrestricted: it calls any operation of its *)
(* side at any time with any argument (a second lock, an unlock without a  *)
(* reservation, a stale or invalid index).                                 *)
(***************************************************************************)
IndexArgs == 0..(N - 1) \cup {INVALID_INDEX}

MinArgs == 0..MaxMin

CallLockWrite ==
    \E m \in MinArgs :
        Call("producer", "lock_write", INVALID_INDEX, FALSE, m)
        /\ UNCHANGED <<dataVars, tripVars, loopVars, snapVars>>

CallUnlockWrite ==
    \E i \in IndexArgs, c \in BOOLEAN :
        Call("producer", "unlock_write", i, c, 0) /\ UNCHANGED <<dataVars, tripVars, loopVars, snapVars>>

CallLockRead ==
    \E m \in MinArgs :
        Call("consumer", "lock_read", INVALID_INDEX, FALSE, m)
        /\ UNCHANGED <<dataVars, tripVars, loopVars, snapVars>>

CallUnlockRead ==
    \E i \in IndexArgs, c \in BOOLEAN :
        Call("consumer", "unlock_read", i, c, 0) /\ UNCHANGED <<dataVars, tripVars, loopVars, snapVars>>

CallTryClear ==
    \E t \in Threads :
        Call(t, "try_clear", INVALID_INDEX, FALSE, 0) /\ UNCHANGED <<dataVars, tripVars, loopVars, snapVars>>

LockWrite == Cas("producer", "lock_write") /\ UNCHANGED <<dataVars, tripVars, loopVars, snapVars>>

UnlockWrite == Cas("producer", "unlock_write") /\ UNCHANGED <<dataVars, tripVars, loopVars, snapVars>>

LockRead == Cas("consumer", "lock_read") /\ UNCHANGED <<dataVars, tripVars, loopVars, snapVars>>

UnlockRead == Cas("consumer", "unlock_read") /\ UNCHANGED <<dataVars, tripVars, loopVars, snapVars>>

TryClear == \E t \in Threads : Cas(t, "try_clear") /\ UNCHANGED <<dataVars, tripVars, loopVars, snapVars>>

Return == \E t \in Threads : Resume(t, INVALID_INDEX) /\ UNCHANGED <<dataVars, tripVars, loopVars, snapVars>>

Next ==
    \/ Return
    \/ CallLockWrite
    \/ LockWrite
    \/ CallUnlockWrite
    \/ UnlockWrite
    \/ CallLockRead
    \/ LockRead
    \/ CallUnlockRead
    \/ UnlockRead
    \/ CallTryClear
    \/ TryClear

Spec == Init /\ [][Next]_vars

(***************************************************************************)
(* Disciplined use: one producer repeating lock_write / store into         *)
(* at(index) / unlock_write(index, commit) and one consumer repeating      *)
(* lock_read / load from at(index) / unlock_read(index, commit).  A side   *)
(* touches a slot only between its successful lock and its unlock, and     *)
(* passes to unlock the index its lock returned.  `committed` and          *)
(* `received` record the values of the committed writes and reads.         *)
(*                                                                         *)
(* The same actions run a round trip when phase leaves "free": a write     *)
(* phase in which only the producer runs (min_free = 0, commit = true)     *)
(* until mark.k values are committed, then a read phase in which only the  *)
(* consumer runs (min_remains = 0, commit = true).                         *)
(***************************************************************************)
P == "producer"

C == "consumer"

\* the reservation cycle after a step of lock_* by t
StageAfterLock(t) ==
    IF pc'[t] = "done" /\ result'[t] THEN [stage EXCEPT ![t] = "locked"] ELSE stage

\* the word a successful lock_* of t replaced in this step
BeforeAfterLock(t) ==
    IF pc'[t] = "done" /\ result'[t] THEN [before EXCEPT ![t] = rpwp] ELSE before

\* the committed items that have not been read, oldest first
Queued == SubSeq(committed, Len(received) + 1, Len(committed))

MinFor(ph) == IF phase = ph THEN {0} ELSE MinArgs

CommitFor(ph) == IF phase = ph THEN {TRUE} ELSE BOOLEAN

ProducerCallLock ==
    /\ phase \in {"free", "write"}
    /\ phase = "write" => Len(committed) < mark.base + mark.k
    /\ stage[P] = "none"
    /\ nextVal <= MaxVal
    /\ \E m \in MinFor("write") : Call(P, "lock_write", INVALID_INDEX, FALSE, m)
    /\ stage' = StageAfterLock(P)
    /\ before' = BeforeAfterLock(P)
    /\ UNCHANGED <<elements, nextVal, got, committed, received, tripVars, loopVars, snapVars>>

ProducerLock ==
    /\ Cas(P, "lock_write")
    /\ stage' = StageAfterLock(P)
    /\ before' = BeforeAfterLock(P)
    /\ UNCHANGED <<elements, nextVal, got, committed, received, tripVars, loopVars, snapVars>>

\* at(index) = v
ProducerStore ==
    /\ pc[P] = "idle"
    /\ stage[P] = "locked"
    /\ elements' = [elements EXCEPT ![index[P]] = nextVal]
    /\ nextVal' = nextVal + 1
    /\ stage' = [stage EXCEPT ![P] = "stored"]
    /\ UNCHANGED <<wordVars, got, committed, received, before, tripVars, loopVars, snapVars>>

\* what the return of an unlock_write leaves behind
AfterUnlockWrite ==
    IF pc'[P] = "done"
    THEN /\ stage' = [stage EXCEPT ![P] = "none"]
         /\ before' = [before EXCEPT ![P] = Zero32]
         /\ committed' = IF result'[P] /\ commit'[P]
                         THEN Append(committed, elements[index'[P]])
                         ELSE committed
    ELSE UNCHANGED <<stage, committed, before>>

ProducerCallUnlock ==
    /\ phase \in {"free", "write"}
    /\ \E c \in CommitFor("write") :
          /\ stage[P] = "stored" \/ (stage[P] = "locked" /\ ~c)
          /\ Call(P, "unlock_write", index[P], c, 0)
    /\ AfterUnlockWrite
    /\ UNCHANGED <<elements, nextVal, got, received, tripVars, loopVars, snapVars>>

ProducerUnlock ==
    /\ Cas(P, "unlock_write")
    /\ AfterUnlockWrite
    /\ UNCHANGED <<elements, nextVal, got, received, tripVars, loopVars, snapVars>>

ConsumerCallLock ==
    /\ phase \in {"free", "read"}
    /\ phase = "read" => Len(received) < mark.rbase + Len(mark.queued) + mark.k
    /\ stage[C] = "none"
    /\ \E m \in MinFor("read") : Call(C, "lock_read", INVALID_INDEX, FALSE, m)
    /\ stage' = StageAfterLock(C)
    /\ before' = BeforeAfterLock(C)
    /\ UNCHANGED <<elements, nextVal, got, committed, received, tripVars, loopVars, snapVars>>

ConsumerLock ==
    /\ Cas(C, "lock_read")
    /\ stage' = StageAfterLock(C)
    /\ before' = BeforeAfterLock(C)
    /\ UNCHANGED <<elements, nextVal, got, committed, received, tripVars, loopVars, snapVars>>

\* v = at(index)
ConsumerLoad ==
    /\ pc[C] = "idle"
    /\ stage[C] = "locked"
    /\ got' = elements[index[C]]
    /\ stage' = [stage EXCEPT ![C] = "loaded"]
    /\ UNCHANGED <<wordVars, elements, nextVal, committed, received, before, tripVars, loopVars, snapVars>>

\* what the return of an unlock_read leaves behind
AfterUnlockRead ==
    IF pc'[C] = "done"
    THEN /\ stage' = [stage EXCEPT ![C] = "none"]
         /\ before' = [before EXCEPT ![C] = Zero32]
         /\ got' = Garbage
         /\ received' = IF result'[C] /\ commit'[C]
                        THEN Append(received, got)
                        ELSE received
    ELSE UNCHANGED <<stage, got, received, before>>

ConsumerCallUnlock ==
    /\ phase \in {"free", "read"}
    /\ \E c \in CommitFor("read") :
          /\ stage[C] = "loaded" \/ (stage[C] = "locked" /\ ~c)
          /\ Call(C, "unlock_read", index[C], c, 0)
    /\ AfterUnlockRead
    /\ UNCHANGED <<elements, nextVal, committed, tripVars, loopVars, snapVars>>

ConsumerUnlock ==
    /\ Cas(C, "unlock_read")
    /\ AfterUnlockRead
    /\ UNCHANGED <<elements, nextVal, committed, tripVars, loopVars, snapVars>>

\* the caller keeps the index of its reservation for the unlock
Proceed ==
    \E t \in Threads :
        /\ Resume(t, IF stage[t] = "none" THEN INVALID_INDEX ELSE index[t])
        /\ UNCHANGED <<dataVars, tripVars, loopVars, snapVars>>

NextSPSC ==
    \/ Proceed
    \/ ProducerCallLock
    \/ ProducerLock
    \/ ProducerStore
    \/ ProducerCallUnlock
    \/ ProducerUnlock
    \/ ConsumerCallLock
    \/ ConsumerLock
    \/ ConsumerLoad
    \/ ConsumerCallUnlock
    \/ ConsumerUnlock

SpecSPSC == Init /\ [][NextSPSC]_vars

(***************************************************************************)
(* Round trip: from any state the disciplined use reaches in which no      *)
(* reservation is held, k values are written and committed one after the   *)
(* other, and then values are read and committed one after the other.      *)
(***************************************************************************)
BeginRoundTrip ==
    /\ phase = "free"
    /\ pc[P] = "idle" /\ pc[C] = "idle"
    /\ stage[P] = "none" /\ stage[C] = "none"
    /\ ~is_write_locked(rpwp) /\ ~is_read_locked(rpwp)
    /\ \E k \in 1..MaxK :
          /\ k <= capacity - size(rpwp)
          /\ nextVal + k - 1 <= MaxVal
          /\ mark' = [queued |-> Queued, base |-> Len(committed),
                      rbase |-> Len(received), k |-> k]
    /\ phase' = "write"
    /\ UNCHANGED <<wordVars, dataVars, loopVars, snapVars>>

TurnToRead ==
    /\ phase = "write"
    /\ pc[P] = "idle" /\ stage[P] = "none"
    /\ Len(committed) = mark.base + mark.k
    /\ phase' = "read"
    /\ UNCHANGED <<wordVars, dataVars, mark, loopVars, snapVars>>

FinishRoundTrip ==
    /\ phase = "read"
    /\ pc[C] = "idle" /\ stage[C] = "none"
    /\ Len(received) = mark.rbase + Len(mark.queued) + mark.k
    /\ phase' = "done"
    /\ UNCHANGED <<wordVars, dataVars, mark, loopVars, snapVars>>

NextRoundTrip ==
    \/ NextSPSC
    \/ BeginRoundTrip
    \/ TurnToRead
    \/ FinishRoundTrip

SpecRoundTrip == Init /\ [][NextRoundTrip]_vars

(***************************************************************************)
(* Retry loops.  One producer and one consumer use the reservations as in  *)
(* SpecSPSC (a lock_* when no reservation is held, then an unlock_* with   *)
(* the index the lock returned), here without the slot accesses; either    *)
(* thread may also call try_clear() or clear() whenever it is not inside   *)
(* another call; min_free and min_remains have their default, 0.           *)
(* compare_exchange_weak may fail although rpwp_ equals                    *)
(* expected (a spurious failure): expected is then reloaded with the same  *)
(* word and the same pass is repeated.  `retries` counts the failed        *)
(* compare-exchanges of the call in progress and `dirty` records that      *)
(* another thread changed rpwp_ since the call last read it.               *)
(***************************************************************************)
slotVars == <<elements, nextVal, got, committed, received, before>>

Min(a, b) == IF a < b THEN a ELSE b

\* the compare-exchange of t succeeds in this step
Succeeds(t) == pc[t] = "loop" /\ pc'[t] = "done" /\ result'[t]

\* the counters and the reservation after a step of thread t
Count(t) ==
    /\ retries' = [retries EXCEPT ![t] =
                      IF pc[t] = "loop" /\ pc'[t] = "loop"
                      THEN Min(@ + 1, MaxRetry)
                      ELSE 0]
    /\ dirty' = [u \in Threads |->
                   IF u = t THEN FALSE
                   ELSE dirty[u] \/ (pc[u] = "loop" /\ rpwp' # rpwp)]
    /\ stage' = [stage EXCEPT ![t] =
                    IF pc'[t] = "done" /\ op'[t] \in {"lock_write", "lock_read"}
                    THEN (IF result'[t] THEN "locked" ELSE "none")
                    ELSE IF pc'[t] = "done" /\ op'[t] \in {"unlock_write", "unlock_read"}
                    THEN "none"
                    ELSE @]

BeginLockWrite ==
    /\ stage[P] = "none"
    /\ Call(P, "lock_write", INVALID_INDEX, FALSE, 0)
    /\ Count(P)
    /\ UNCHANGED <<clearing, slotVars, tripVars, snapVars>>

BeginUnlockWrite ==
    /\ stage[P] = "locked"
    /\ \E c \in BOOLEAN : Call(P, "unlock_write", index[P], c, 0)
    /\ Count(P)
    /\ UNCHANGED <<clearing, slotVars, tripVars, snapVars>>

BeginLockRead ==
    /\ stage[C] = "none"
    /\ Call(C, "lock_read", INVALID_INDEX, FALSE, 0)
    /\ Count(C)
    /\ UNCHANGED <<clearing, slotVars, tripVars, snapVars>>

BeginUnlockRead ==
    /\ stage[C] = "locked"
    /\ \E c \in BOOLEAN : Call(C, "unlock_read", index[C], c, 0)
    /\ Count(C)
    /\ UNCHANGED <<clearing, slotVars, tripVars, snapVars>>

BeginTryClear(t) ==
    /\ Call(t, "try_clear", index[t], FALSE, 0)
    /\ Count(t)
    /\ UNCHANGED <<clearing, slotVars, tripVars, snapVars>>

\* clear(): the first try_clear()
BeginClear(t) ==
    /\ Call(t, "try_clear", index[t], FALSE, 0)
    /\ Count(t)
    /\ clearing' = [clearing EXCEPT ![t] = TRUE]
    /\ UNCHANGED <<slotVars, tripVars, snapVars>>

\* clear(): try_clear() returned false, so while (!try_clear()) calls it again
ClearAgain(t) ==
    /\ pc[t] = "done"
    /\ clearing[t]
    /\ ~result[t]
    /\ Enter(t, "try_clear", index[t], FALSE, 0)
    /\ Count(t)
    /\ UNCHANGED <<clearing, slotVars, tripVars, snapVars>>

\* the compare-exchange of t's operation, when it does not fail spuriously
Attempt(t) ==
    /\ Cas(t, op[t])
    /\ Count(t)
    /\ UNCHANGED <<clearing, slotVars, tripVars, snapVars>>

\* compare_exchange_weak fails although rpwp_ = expected
AttemptSpurious(t) ==
    /\ pc[t] = "loop"
    /\ rpwp = expected[t]
    /\ UNCHANGED wordVars
    /\ Count(t)
    /\ UNCHANGED <<clearing, slotVars, tripVars, snapVars>>

\* the operation of t, or its clear(), has returned and the caller goes on,
\* keeping the index of the reservation it holds
Finish(t) ==
    /\ clearing[t] => result[t]
    /\ Resume(t, IF stage[t] = "none" THEN INVALID_INDEX ELSE index[t])
    /\ Count(t)
    /\ clearing' = [clearing EXCEPT ![t] = FALSE]
    /\ UNCHANGED <<slotVars, tripVars, snapVars>>

NextProgress ==
    \/ BeginLockWrite
    \/ BeginUnlockWrite
    \/ BeginLockRead
    \/ BeginUnlockRead
    \/ \E t \in Threads : BeginTryClear(t)
    \/ \E t \in Threads : BeginClear(t)
    \/ \E t \in Threads : ClearAgain(t)
    \/ \E t \in Threads : Attempt(t)
    \/ \E t \in Threads : AttemptSpurious(t)
    \/ \E t \in Threads : Finish(t)

\* a thread inside an operation keeps running (the threads are preemptible and
\* nothing blocks), and its compare-exchange does not fail spuriously for ever;
\* a client need not call anything
Fairness ==
    \A t \in Threads : WF_vars(Attempt(t)) /\ WF_vars(ClearAgain(t))

SpecProgress == Init /\ [][NextProgress]_vars /\ Fairness

(***************************************************************************)
(* Introspection.  empty(), full(), size() and capacity() are const member *)
(* functions; empty() and size() read rpwp_ once, full() is                *)
(* size() == capacity(), and capacity() reads nothing.  Each is one step   *)
(* of the calling thread, taken between the steps of the other thread's    *)
(* operations; a bool comes back in `result`, a size_t in `value`.         *)
(***************************************************************************)
Snapshot(t, o, b, n) ==
    /\ pc[t] = "idle"
    /\ pc' = [pc EXCEPT ![t] = "done"]
    /\ op' = [op EXCEPT ![t] = o]
    /\ result' = [result EXCEPT ![t] = b]
    /\ value' = [value EXCEPT ![t] = n]
    /\ UNCHANGED <<rpwp, expected, index, commit, minarg, net>>

CallEmpty ==
    \E t \in Threads :
        Snapshot(t, "empty", empty(rpwp), 0) /\ UNCHANGED <<dataVars, tripVars, loopVars>>

CallFull ==
    \E t \in Threads :
        Snapshot(t, "full", full(rpwp), 0) /\ UNCHANGED <<dataVars, tripVars, loopVars>>

CallSize ==
    \E t \in Threads :
        Snapshot(t, "size", FALSE, size(rpwp)) /\ UNCHANGED <<dataVars, tripVars, loopVars>>

CallCapacity ==
    \E t \in Threads :
        Snapshot(t, "capacity", FALSE, capacity) /\ UNCHANGED <<dataVars, tripVars, loopVars>>

\* the caller has taken the returned value, of an operation or of a snapshot
ReturnValue ==
    \E t \in Threads :
        /\ Resume(t, INVALID_INDEX)
        /\ value' = [value EXCEPT ![t] = 0]
        /\ UNCHANGED <<dataVars, tripVars, loopVars>>

NextIntrospect ==
    \/ ReturnValue
    \/ CallLockWrite
    \/ LockWrite
    \/ CallUnlockWrite
    \/ UnlockWrite
    \/ CallLockRead
    \/ LockRead
    \/ CallUnlockRead
    \/ UnlockRead
    \/ CallTryClear
    \/ TryClear
    \/ CallEmpty
    \/ CallFull
    \/ CallSize
    \/ CallCapacity

SpecIntrospect == Init /\ [][NextIntrospect]_vars

(***************************************************************************)
(* Properties                                                              *)
(***************************************************************************)
IsPrefix(s, t) == Len(s) <= Len(t) /\ \A i \in 1..Len(s) : s[i] = t[i]

\* operation o of thread t returns in this step
Returns(t, o) == pc[t] # "done" /\ pc'[t] = "done" /\ op'[t] = o

\* thread t holds a reservation: its lock_* succeeded and its unlock_* has not taken effect
Holds(t) == stage[t] # "none"

\* C1: with one producer and one consumer following the protocol, the values of
\* the committed reads are, in order, a prefix of the values of the committed
\* writes; the value the consumer loads from its reserved slot is the next
\* committed value that has not been read.
C1_ReadsArePrefixOfCommits ==
    /\ IsPrefix(received, committed)
    /\ stage[C] = "loaded" =>
          /\ Len(received) < Len(committed)
          /\ got = committed[Len(received) + 1]

\* more than N values read (the indices have wrapped) after an aborted write
C1_Witness ==
    /\ Len(received) > N
    /\ stage[P] = "none"
    /\ nextVal - 1 > Len(committed)

\* C2: when both lock bits are set the two pointers differ, and the slot the
\* producer has reserved is never the slot the consumer has reserved.
C2_SlotExclusive ==
    /\ is_write_locked(rpwp) /\ is_read_locked(rpwp)
          => write_pointer(rpwp) # read_pointer(rpwp)
    /\ Holds(P) /\ Holds(C) => index[P] # index[C]

\* both sides hold a reservation on neighbouring slots and both access them
C2_Witness ==
    /\ stage[P] = "stored"
    /\ stage[C] = "loaded"
    /\ is_write_locked(rpwp) /\ is_read_locked(rpwp)
    /\ index[P] = next_pointer(index[C])

\* C3: a lock_write that acts on a word with write_locked set fails, returns
\* INVALID_INDEX and changes nothing, whatever the fill level and min_free; a
\* lock_write succeeds only from a word with write_locked clear and sets it;
\* the same for lock_read and read_locked.
C3_OneReservationPerSide ==
    [][ /\ Returns(P, "lock_write") /\ is_write_locked(rpwp)
            => ~result'[P] /\ index'[P] = INVALID_INDEX /\ rpwp' = rpwp
        /\ Returns(P, "lock_write") /\ result'[P]
            => ~is_write_locked(rpwp) /\ is_write_locked(rpwp')
        /\ Returns(C, "lock_read") /\ is_read_locked(rpwp)
            => ~result'[C] /\ index'[C] = INVALID_INDEX /\ rpwp' = rpwp
        /\ Returns(C, "lock_read") /\ result'[C]
            => ~is_read_locked(rpwp) /\ is_read_locked(rpwp')
      ]_vars

\* both sides hold a reservation, and a second lock_write(0) and a second
\* lock_read(0) have just failed although there is room and there are items
C3_Witness ==
    /\ is_write_locked(rpwp) /\ is_read_locked(rpwp)
    /\ size(rpwp) = 1
    /\ pc[P] = "done" /\ op[P] = "lock_write" /\ minarg[P] = 0
    /\ ~result[P] /\ index[P] = INVALID_INDEX
    /\ pc[C] = "done" /\ op[C] = "lock_read" /\ minarg[C] = 0
    /\ ~result[C] /\ index[C] = INVALID_INDEX

\* C4: both pointers stay in [0, N), and size() = (write_pointer -
\* read_pointer) mod N lies in [0, N - 1].
C4_PointersAndCountInRange ==
    /\ write_pointer(rpwp) \in 0..(N - 1)
    /\ read_pointer(rpwp) \in 0..(N - 1)
    /\ size(rpwp) = (write_pointer(rpwp) - read_pointer(rpwp)) % N
    /\ size(rpwp) >= 0
    /\ size(rpwp) <= N - 1

\* the buffer is full with the write pointer wrapped behind the read pointer
\* while a try_clear that succeeded earlier has returned
C4_Witness ==
    /\ size(rpwp) = N - 1
    /\ write_pointer(rpwp) < read_pointer(rpwp)
    /\ \E t \in Threads : pc[t] = "done" /\ op[t] = "try_clear" /\ result[t]

\* round trip: the values committed in the write phase so far, and the values
\* of the committed reads since the write phase began
Written ==
    SubSeq(committed, mark.base + 1,
           IF Len(committed) < mark.base + mark.k THEN Len(committed)
           ELSE mark.base + mark.k)

ReadBack == SubSeq(received, mark.rbase + 1, Len(received))

\* C5 as stated: the first k committed reads after the k committed writes
\* yield exactly the k values written, from whatever state the writes began.
C5_AsStated ==
    phase \in {"read", "done"} /\ Len(ReadBack) >= mark.k
        => SubSeq(ReadBack, 1, mark.k) = Written

\* C5, amended: the committed reads that follow the k committed writes yield,
\* in order, the values that were queued when the writes began followed by the
\* k values written; they yield exactly the k values written when the buffer
\* was empty at that moment.
C5_RoundTrip ==
    /\ phase \in {"read", "done"} =>
          /\ Len(Written) = mark.k
          /\ IsPrefix(ReadBack, mark.queued \o Written)
          /\ mark.queued = <<>> /\ Len(ReadBack) = mark.k => ReadBack = Written
    /\ phase = "done" => ReadBack = mark.queued \o Written

\* a finished round trip that began with items queued and whose writes wrapped
\* around from index N - 1 to index 0
C5_Witness ==
    /\ phase = "done"
    /\ mark.queued # <<>>
    /\ (mark.base % N) + mark.k > N
    /\ ReadBack = mark.queued \o Written

\* C6: capacity() is N - 1; full() holds exactly when the committed writes
\* minus the committed reads since construction or the last successful
\* try_clear number N - 1; a lock_write that acts on a full buffer fails,
\* returns INVALID_INDEX and changes nothing.
C6_UsableCapacity ==
    /\ [](/\ capacity = N - 1
          /\ size(rpwp) = net
          /\ full(rpwp) <=> net = N - 1)
    /\ [][Returns(P, "lock_write") /\ full(rpwp)
            => ~result'[P] /\ index'[P] = INVALID_INDEX /\ rpwp' = rpwp]_vars

\* N - 1 commits after construction: the buffer is full, no lock is held, and
\* a further lock_write(0) has just failed
C6_Witness ==
    /\ full(rpwp) /\ net = N - 1
    /\ read_pointer(rpwp) = 0 /\ write_pointer(rpwp) = N - 1
    /\ ~is_write_locked(rpwp) /\ ~is_read_locked(rpwp)
    /\ pc[P] = "done" /\ op[P] = "lock_write" /\ minarg[P] = 0
    /\ ~result[P] /\ index[P] = INVALID_INDEX

\* the write pointer moves only by one slot, in the step in which a committing
\* unlock_write succeeds and write_locked goes from set to clear
WritePointerDiscipline ==
    write_pointer(rpwp') # write_pointer(rpwp) =>
        /\ write_pointer(rpwp') = (write_pointer(rpwp) + 1) % N
        /\ is_write_locked(rpwp) /\ ~is_write_locked(rpwp')
        /\ Returns(P, "unlock_write") /\ result'[P] /\ commit'[P]

\* the same for the read pointer and unlock_read
ReadPointerDiscipline ==
    /\ read_pointer(rpwp') = (read_pointer(rpwp) + 1) % N
    /\ is_read_locked(rpwp) /\ ~is_read_locked(rpwp')
    /\ Returns(C, "unlock_read") /\ result'[C] /\ commit'[C]

\* a try_clear succeeds in this step: no lock is held and read_pointer becomes
\* write_pointer
ClearedInThisStep ==
    /\ \E t \in Threads : Returns(t, "try_clear") /\ result'[t]
    /\ ~is_write_locked(rpwp) /\ ~is_read_locked(rpwp)
    /\ ~is_write_locked(rpwp') /\ ~is_read_locked(rpwp')
    /\ read_pointer(rpwp') = write_pointer(rpwp)

\* C7 as stated: under every operation, try_clear included, each pointer moves
\* only by one slot and only in the step in which its lock is released by a
\* committing unlock.
C7_AsStated ==
    [][ /\ WritePointerDiscipline
        /\ read_pointer(rpwp') # read_pointer(rpwp) => ReadPointerDiscipline
      ]_vars

\* C7, amended: write_pointer obeys the discipline under every operation;
\* read_pointer obeys it under every operation but a successful try_clear,
\* which moves it to write_pointer in one step while neither lock is held.
C7_PointerDiscipline ==
    [][ /\ WritePointerDiscipline
        /\ read_pointer(rpwp') # read_pointer(rpwp)
              => ReadPointerDiscipline \/ ClearedInThisStep
      ]_vars

\* a try_clear has returned success and left the buffer empty with both
\* pointers two slots or more from where they started
C7_Witness ==
    /\ \E t \in Threads : pc[t] = "done" /\ op[t] = "try_clear" /\ result[t]
    /\ empty(rpwp)
    /\ write_pointer(rpwp) >= 2
    /\ net = 0

\* C8: lock_write(min_free) succeeds exactly when the word it acts on has
\* write_locked clear and (N - 1) - count > min_free; on success it sets
\* write_locked, changes nothing else and returns write_pointer; on failure it
\* changes nothing and returns INVALID_INDEX.
C8_LockWrite ==
    [][ Returns(P, "lock_write") =>
          /\ result'[P] <=> /\ ~is_write_locked(rpwp)
                            /\ (N - 1) - size(rpwp) > minarg'[P]
          /\ result'[P] =>
                /\ is_write_locked(rpwp')
                /\ write_pointer(rpwp') = write_pointer(rpwp)
                /\ read_pointer(rpwp') = read_pointer(rpwp)
                /\ is_read_locked(rpwp') = is_read_locked(rpwp)
                /\ index'[P] = write_pointer(rpwp)
          /\ ~result'[P] => rpwp' = rpwp /\ index'[P] = INVALID_INDEX
      ]_vars

\* lock_write(min_free = 1) has just failed on an unlocked buffer with exactly
\* one free slot
C8_Witness ==
    /\ pc[P] = "done" /\ op[P] = "lock_write" /\ minarg[P] = 1
    /\ ~result[P] /\ index[P] = INVALID_INDEX
    /\ ~is_write_locked(rpwp)
    /\ size(rpwp) = N - 2
    /\ pc[C] = "idle"

\* C9: lock_read(min_remains) succeeds exactly when the word it acts on has
\* read_locked clear and count > min_remains; on success it sets read_locked,
\* changes nothing else and returns read_pointer; on failure it changes nothing
\* and returns INVALID_INDEX.
C9_LockRead ==
    [][ Returns(C, "lock_read") =>
          /\ result'[C] <=> /\ ~is_read_locked(rpwp)
                            /\ size(rpwp) > minarg'[C]
          /\ result'[C] =>
                /\ is_read_locked(rpwp')
                /\ read_pointer(rpwp') = read_pointer(rpwp)
                /\ write_pointer(rpwp') = write_pointer(rpwp)
                /\ is_write_locked(rpwp') = is_write_locked(rpwp)
                /\ index'[C] = read_pointer(rpwp)
          /\ ~result'[C] => rpwp' = rpwp /\ index'[C] = INVALID_INDEX
      ]_vars

\* lock_read(min_remains = 1) has just succeeded with two items queued, after
\* the read pointer has wrapped
C9_Witness ==
    /\ pc[C] = "done" /\ op[C] = "lock_read" /\ minarg[C] = 1
    /\ result[C] /\ index[C] = read_pointer(rpwp)
    /\ is_read_locked(rpwp)
    /\ size(rpwp) = 2
    /\ write_pointer(rpwp) < read_pointer(rpwp)

\* C10: unlock_write(index, commit) succeeds exactly when the word it acts on
\* has write_locked set and write_pointer = index; in the one step in which it
\* succeeds write_locked is cleared and write_pointer becomes (index + 1) mod N
\* if commit, stays if not; the read half is untouched; a failure changes
\* nothing; write_locked is never cleared and write_pointer never moved in any
\* other step.  The same for unlock_read.
C10_Unlock ==
    [][ /\ Returns(P, "unlock_write") =>
              /\ result'[P] <=> /\ is_write_locked(rpwp)
                                /\ index'[P] = write_pointer(rpwp)
              /\ result'[P] =>
                    /\ ~is_write_locked(rpwp')
                    /\ write_pointer(rpwp') =
                          IF commit'[P] THEN (index'[P] + 1) % N
                          ELSE write_pointer(rpwp)
                    /\ read_pointer(rpwp') = read_pointer(rpwp)
                    /\ is_read_locked(rpwp') = is_read_locked(rpwp)
              /\ ~result'[P] => rpwp' = rpwp
        /\ Returns(C, "unlock_read") =>
              /\ result'[C] <=> /\ is_read_locked(rpwp)
                                /\ index'[C] = read_pointer(rpwp)
              /\ result'[C] =>
                    /\ ~is_read_locked(rpwp')
                    /\ read_pointer(rpwp') =
                          IF commit'[C] THEN (index'[C] + 1) % N
                          ELSE read_pointer(rpwp)
                    /\ write_pointer(rpwp') = write_pointer(rpwp)
                    /\ is_write_locked(rpwp') = is_write_locked(rpwp)
              /\ ~result'[C] => rpwp' = rpwp
        /\ is_write_locked(rpwp) /\ ~is_write_locked(rpwp')
              => Returns(P, "unlock_write") /\ result'[P]
        /\ write_pointer(rpwp') # write_pointer(rpwp)
              => Returns(P, "unlock_write") /\ result'[P] /\ commit'[P]
        /\ is_read_locked(rpwp) /\ ~is_read_locked(rpwp')
              => Returns(C, "unlock_read") /\ result'[C]
        /\ read_pointer(rpwp') # read_pointer(rpwp) /\ is_read_locked(rpwp)
              => Returns(C, "unlock_read") /\ result'[C] /\ commit'[C]
      ]_vars

\* a committing unlock_write(N - 1) has just wrapped the write pointer to 0
\* and an aborting unlock_read has just succeeded, leaving its pointer
C10_Witness ==
    /\ pc[P] = "done" /\ op[P] = "unlock_write" /\ result[P] /\ commit[P]
    /\ index[P] = N - 1 /\ write_pointer(rpwp) = 0
    /\ ~is_write_locked(rpwp)
    /\ pc[C] = "done" /\ op[C] = "unlock_read" /\ result[C] /\ ~commit[C]
    /\ index[C] = read_pointer(rpwp)
    /\ ~is_read_locked(rpwp)

\* the write half (write_pointer, write_locked) and the read half of a word
WriteHalf(w) == And32(w, Or32(WRITE_POINTER_MASK, WRITE_LOCK_BIT_MASK))

ReadHalf(w) == And32(w, Or32(READ_POINTER_MASK, READ_LOCK_BIT_MASK))

\* the slots from read_pointer up to write_pointer hold the committed values
\* that have not been read, oldest first
QueueHoldsCommitted ==
    /\ size(rpwp) = Len(Queued)
    /\ \A j \in 1..Len(Queued) :
          elements[(read_pointer(rpwp) + j - 1) % N] = Queued[j]

\* what the step in which t's aborting unlock succeeds leaves of the cycle that
\* began with the lock on the word before[t]
CycleUndone(t, Mine(_), Theirs(_)) ==
    /\ Mine(rpwp') = Mine(before[t])
    /\ Theirs(rpwp') = Theirs(rpwp)
    /\ Theirs(rpwp) = Theirs(before[t]) => rpwp' = before[t]
    /\ size(rpwp') = size(rpwp)
    /\ committed' = committed
    /\ received' = received

\* C11: the step in which an aborting unlock_write succeeds returns the word to
\* the value on which the lock_write of that cycle succeeded (the write half
\* always, the whole word when the consumer changed nothing meanwhile), and
\* likewise for lock_read / unlock_read; neither the lock nor the aborting
\* unlock changes size(); the queued slots always hold the committed, unread
\* values in order, also after the producer stored into a slot it then aborted.
C11_AbortHasNoEffect ==
    /\ []QueueHoldsCommitted
    /\ [][ /\ Returns(P, "unlock_write") /\ result'[P] /\ ~commit'[P]
               => CycleUndone(P, WriteHalf, ReadHalf)
           /\ Returns(C, "unlock_read") /\ result'[C] /\ ~commit'[C]
               => CycleUndone(C, ReadHalf, WriteHalf)
           /\ (Returns(P, "lock_write") \/ Returns(C, "lock_read"))
               => size(rpwp') = size(rpwp)
         ]_vars

\* the producer has just aborted a reservation after storing into the slot:
\* the stored value sits in the slot at write_pointer, outside the queue, while
\* items are queued and committed reads have been delivered
C11_Witness ==
    /\ pc[P] = "done" /\ op[P] = "unlock_write" /\ result[P] /\ ~commit[P]
    /\ elements[write_pointer(rpwp)] = nextVal - 1
    /\ nextVal - 1 > Len(committed)
    /\ size(rpwp) >= 1
    /\ Len(received) >= 1
    /\ ~is_write_locked(rpwp)

\* C12: a try_clear fails, changing nothing, when the word it acts on has
\* write_locked or read_locked set, and succeeds when neither is set; the one
\* step in which it succeeds makes read_pointer equal to write_pointer, so
\* size() is 0 and empty() holds, and leaves write_pointer and both lock bits
\* as they were.
C12_TryClear ==
    [][ \A t \in Threads :
          Returns(t, "try_clear") =>
            /\ result'[t] <=> ~is_write_locked(rpwp) /\ ~is_read_locked(rpwp)
            /\ result'[t] =>
                  /\ read_pointer(rpwp') = write_pointer(rpwp)
                  /\ write_pointer(rpwp') = write_pointer(rpwp)
                  /\ is_write_locked(rpwp') = is_write_locked(rpwp)
                  /\ is_read_locked(rpwp') = is_read_locked(rpwp)
                  /\ size(rpwp') = 0
                  /\ empty(rpwp')
            /\ ~result'[t] => rpwp' = rpwp
      ]_vars

\* the consumer's try_clear failed while a lock was held; later the producer's
\* try_clear succeeded and left the buffer empty with write_pointer at N - 1
C12_Witness ==
    /\ pc[C] = "done" /\ op[C] = "try_clear" /\ ~result[C]
    /\ pc[P] = "done" /\ op[P] = "try_clear" /\ result[P]
    /\ empty(rpwp) /\ size(rpwp) = 0
    /\ write_pointer(rpwp) = N - 1
    /\ ~is_write_locked(rpwp) /\ ~is_read_locked(rpwp)

\* C13: a call of any of the five operations that returns false leaves the
\* word and the slots as they were, and the word changes only in the step in
\* which a call returns true; a failed lock_* returns INVALID_INDEX, which is
\* above every value a pointer field can hold, and a successful one does not;
\* an unlock_* acting on a word whose lock bit is clear (no reservation, or a
\* second unlock) or whose pointer differs from its index returns false.
C13_FailureChangesNothing ==
    /\ [](/\ INVALID_INDEX > ToIndex(WRITE_POINTER_MASK)
          /\ INVALID_INDEX \notin 0..(N - 1)
          /\ write_pointer(rpwp) # INVALID_INDEX
          /\ read_pointer(rpwp) # INVALID_INDEX)
    /\ [][ /\ \A t \in Threads :
                 pc[t] # "done" /\ pc'[t] = "done" /\ ~result'[t]
                     => rpwp' = rpwp /\ elements' = elements
           /\ rpwp' # rpwp
                 => \E t \in Threads : pc[t] = "loop" /\ pc'[t] = "done" /\ result'[t]
           /\ Returns(P, "lock_write")
                 => (index'[P] = INVALID_INDEX <=> ~result'[P])
           /\ Returns(C, "lock_read")
                 => (index'[C] = INVALID_INDEX <=> ~result'[C])
           /\ Returns(P, "unlock_write")
               /\ (~is_write_locked(rpwp) \/ index'[P] # write_pointer(rpwp))
                 => ~result'[P] /\ rpwp' = rpwp
           /\ Returns(C, "unlock_read")
               /\ (~is_read_locked(rpwp) \/ index'[C] # read_pointer(rpwp))
                 => ~result'[C] /\ rpwp' = rpwp
         ]_vars

\* an unlock_write with the live write_pointer but no reservation held has
\* failed, and an unlock_read with a stale index has failed while the read
\* reservation is held; items are queued
C13_Witness ==
    /\ pc[P] = "done" /\ op[P] = "unlock_write" /\ ~result[P] /\ commit[P]
    /\ index[P] = write_pointer(rpwp) /\ ~is_write_locked(rpwp)
    /\ pc[C] = "done" /\ op[C] = "unlock_read" /\ ~result[C] /\ commit[C]
    /\ index[C] \in 0..(N - 1) /\ index[C] # read_pointer(rpwp)
    /\ is_read_locked(rpwp)
    /\ size(rpwp) = 2

\* no reservation is held
NoLock == ~is_write_locked(rpwp) /\ ~is_read_locked(rpwp)

\* the try_clear of t's clear() has returned true: clear() returns
ClearDone(t) == clearing[t] /\ pc[t] = "done" /\ op[t] = "try_clear" /\ result[t]

\* C14: clear() returns only after one of its try_clear calls has returned
\* true, and the compare-exchange of that call acted on a word with both locks
\* clear and left size() = 0; while a lock is held no step makes a clear() in
\* progress return, so it spins for as long as reservations are held or
\* re-acquired; if from some point on no lock is held, a clear() in progress
\* returns.
C14_Clear ==
    /\ [][ \A t \in Threads :
             /\ clearing[t] /\ ~clearing'[t] => ClearDone(t)
             /\ clearing'[t] /\ Returns(t, "try_clear") /\ result'[t]
                   => NoLock /\ size(rpwp') = 0
             /\ clearing[t] /\ ~NoLock /\ ~ClearDone(t)
                   => clearing'[t] /\ ~ClearDone(t)'
         ]_vars
    /\ \A t \in Threads : <>[]NoLock => (clearing[t] ~> ClearDone(t))

\* the consumer is inside clear() and its try_clear has just returned false,
\* while the producer holds a write reservation and is not inside any call
C14_Witness ==
    /\ clearing[C] /\ pc[C] = "done" /\ op[C] = "try_clear" /\ ~result[C]
    /\ stage[P] = "locked" /\ pc[P] = "idle"
    /\ is_write_locked(rpwp)
    /\ size(rpwp) = 2

\* C15: an unlock called with the index its lock returned, while the
\* reservation is held, returns true for either value of commit, whatever
\* operations of the other side, try_clear and clear() calls of either thread
\* came in between: as long as a side holds a reservation its lock bit stays
\* set and its pointer stays at the index the lock returned.
C15_PairedUnlockSucceeds ==
    /\ [](/\ stage[P] = "locked"
                => is_write_locked(rpwp) /\ index[P] = write_pointer(rpwp)
          /\ stage[C] = "locked"
                => is_read_locked(rpwp) /\ index[C] = read_pointer(rpwp))
    /\ [][ /\ Returns(P, "unlock_write") => result'[P]
           /\ Returns(C, "unlock_read") => result'[C]
         ]_vars

\* the producer's aborting unlock_write has just returned true; the consumer,
\* holding a read reservation of its own, has called try_clear, which failed
C15_Witness ==
    /\ pc[P] = "done" /\ op[P] = "unlock_write" /\ result[P] /\ ~commit[P]
    /\ index[P] = write_pointer(rpwp) /\ ~is_write_locked(rpwp)
    /\ stage[C] = "locked" /\ is_read_locked(rpwp)
    /\ pc[C] = "done" /\ op[C] = "try_clear" /\ ~result[C]

\* operation o of thread t returns true in this step
ReturnsTrue(t, o) == Returns(t, o) /\ result'[t]

\* C16: a step of lock_write or unlock_write, successful or not, leaves
\* read_pointer and read_locked as they are in the word at that moment, and a
\* step of lock_read or unlock_read leaves write_pointer and write_locked as
\* they are; the write half changes only in the step in which a lock_write or
\* unlock_write returns true, and the read half only in the step in which a
\* lock_read, an unlock_read or a try_clear returns true.
C16_OwnHalfOnly ==
    [][ /\ Returns(P, "lock_write") \/ Returns(P, "unlock_write")
              => ReadHalf(rpwp') = ReadHalf(rpwp)
        /\ Returns(C, "lock_read") \/ Returns(C, "unlock_read")
              => WriteHalf(rpwp') = WriteHalf(rpwp)
        /\ WriteHalf(rpwp') # WriteHalf(rpwp)
              => ReturnsTrue(P, "lock_write") \/ ReturnsTrue(P, "unlock_write")
        /\ ReadHalf(rpwp') # ReadHalf(rpwp)
              => \/ ReturnsTrue(C, "lock_read") \/ ReturnsTrue(C, "unlock_read")
                 \/ \E t \in Threads : ReturnsTrue(t, "try_clear")
      ]_vars

\* a lock_write and a committing unlock_read have both just returned true:
\* the word holds the write lock and the advanced read pointer
C16_Witness ==
    /\ pc[P] = "done" /\ op[P] = "lock_write" /\ result[P]
    /\ pc[C] = "done" /\ op[C] = "unlock_read" /\ result[C] /\ commit[C]
    /\ is_write_locked(rpwp) /\ ~is_read_locked(rpwp)
    /\ write_pointer(rpwp) = index[P]
    /\ read_pointer(rpwp) = (index[C] + 1) % N
    /\ size(rpwp) = 1

\* the compare-exchange of t fails in this step
CasFails(t) ==
    /\ pc[t] = "loop"
    /\ \/ pc'[t] = "done" /\ ~result'[t]
       \/ pc'[t] = "loop" /\ (retries'[t] # retries[t] \/ expected'[t] # expected[t])

\* C17 as stated: a compare-exchange fails only if another operation changed
\* the word since this operation last read it.
C17_AsStated ==
    [][\A t \in Threads : CasFails(t) => dirty[t]]_vars

\* C17, amended: a compare-exchange fails only if another operation changed
\* the word since this operation last read it, or spuriously while the word is
\* still the one it read; whenever an operation is inside its retry loop, some
\* operation (this one or another) returns later on.
C17_LockFree ==
    /\ [](\A t \in Threads : pc[t] = "loop" /\ rpwp # expected[t] => dirty[t])
    /\ [][\A t \in Threads : CasFails(t) => dirty[t] \/ rpwp = expected[t]]_vars
    /\ \A t \in Threads : pc[t] = "loop" ~> (\E u \in Threads : pc[u] = "done")


\* the producer's lock_write has failed its compare-exchange MaxRetry times
\* and will fail it again: the consumer's aborting unlock_read has just changed
\* the word the producer read
C17_Witness ==
    /\ pc[P] = "loop" /\ op[P] = "lock_write"
    /\ retries[P] = MaxRetry
    /\ dirty[P] /\ rpwp # expected[P]
    /\ pc[C] = "done" /\ op[C] = "unlock_read" /\ result[C] /\ ~commit[C]

\* C18 as stated: every call that is inside its retry loop returns, whatever
\* the other side does.
C18_AsStated ==
    \A t \in Threads : pc[t] = "loop" ~> pc[t] = "done"

\* C18, amended: a call that is inside its retry loop returns if from some
\* point on the other thread is not inside a retry loop of its own (only a
\* compare-exchange of the other thread can make this one fail again).
C18_ReturnsWhenUndisturbed ==
    \A t, u \in Threads :
        t # u => (<>[](pc[u] # "loop") => (pc[t] = "loop" ~> pc[t] = "done"))

\* the consumer's lock_read has failed its compare-exchange MaxRetry times
\* while the producer went through lock_write and unlock_write, and the
\* producer is now outside every call
C18_Witness ==
    /\ pc[C] = "loop" /\ op[C] = "lock_read"
    /\ retries[C] = MaxRetry
    /\ ~dirty[C] /\ rpwp = expected[C]
    /\ pc[P] = "idle" /\ stage[P] = "none"
    /\ size(rpwp) = 2

\* C19: while write_locked is set, it is cleared only in the step in which an
\* unlock_write with index = write_pointer returns true; every lock_write and
\* every try_clear that acts on such a word returns false; a lock_read still
\* succeeds exactly when read_locked is clear and count > min_remains, and a
\* committing unlock_read still takes one item, down to the empty buffer.
\* The same with the sides exchanged: while read_locked is set the producer
\* can still reserve and commit until the buffer is full.
C19_Wedged ==
    [][ /\ is_write_locked(rpwp) =>
              /\ ~is_write_locked(rpwp')
                    => ReturnsTrue(P, "unlock_write") /\ index'[P] = write_pointer(rpwp)
              /\ Returns(P, "lock_write") => ~result'[P]
              /\ \A t \in Threads : Returns(t, "try_clear") => ~result'[t]
              /\ Returns(C, "lock_read")
                    => (result'[C] <=> ~is_read_locked(rpwp) /\ size(rpwp) > minarg'[C])
              /\ ReturnsTrue(C, "unlock_read") /\ commit'[C]
                    => size(rpwp) > 0 /\ size(rpwp') = size(rpwp) - 1
        /\ is_read_locked(rpwp) =>
              /\ ~is_read_locked(rpwp')
                    => ReturnsTrue(C, "unlock_read") /\ index'[C] = read_pointer(rpwp)
              /\ Returns(C, "lock_read") => ~result'[C]
              /\ \A t \in Threads : Returns(t, "try_clear") => ~result'[t]
              /\ Returns(P, "lock_write")
                    => (result'[P] <=> /\ ~is_write_locked(rpwp)
                                       /\ capacity - size(rpwp) > minarg'[P])
              /\ ReturnsTrue(P, "unlock_write") /\ commit'[P]
                    => size(rpwp) < capacity /\ size(rpwp') = size(rpwp) + 1
      ]_vars

\* the write reservation is still held; the consumer has committed the last
\* queued item, leaving the buffer empty, and a further lock_write has failed
C19_Witness ==
    /\ is_write_locked(rpwp)
    /\ pc[P] = "done" /\ op[P] = "lock_write" /\ ~result[P] /\ minarg[P] = 0
    /\ pc[C] = "done" /\ op[C] = "unlock_read" /\ result[C] /\ commit[C]
    /\ empty(rpwp)
    /\ write_pointer(rpwp) = 2

\* every value of rpwp_ with both pointers in 0..N-1, with any lock bits
Words ==
    { mod_read_locked(mod_write_locked(
          mod_read_pointer(mod_write_pointer(Zero32, wp), rp), wl), rl) :
        wp \in 0..(N - 1), rp \in 0..(N - 1), wl \in BOOLEAN, rl \in BOOLEAN }

\* what the four functions compute from the word w
SnapshotOf(w) ==
    [empty |-> empty(w), full |-> full(w), size |-> size(w), capacity |-> capacity]

\* for every word with pointers in 0..N-1: size() is
\* (write_pointer - read_pointer) mod N, empty() is size() = 0, full() is
\* size() = N - 1, the two are not both true, and the four results are the
\* same for every setting of the two lock bits
SnapshotTable ==
    \A w \in Words :
        /\ size(w) = (write_pointer(w) - read_pointer(w)) % N
        /\ empty(w) <=> size(w) = 0
        /\ full(w) <=> size(w) = N - 1
        /\ ~(empty(w) /\ full(w))
        /\ capacity = N - 1
        /\ \A wl, rl \in BOOLEAN :
               SnapshotOf(mod_read_locked(mod_write_locked(w, wl), rl))
                   = SnapshotOf(w)

\* C20: the table of the four functions over all words with pointers in
\* 0..N-1 is as stated (SnapshotTable); a call of empty(), full(), size() or
\* capacity() made at any moment, also between the steps of the other
\* thread's operation, returns what the table gives for the word rpwp_ holds
\* at that step (a function of the two pointers alone) and leaves rpwp_ and
\* the slots as they are.
C20_Snapshot ==
    /\ []SnapshotTable
    /\ [][ \A t \in Threads :
            LET d == (write_pointer(rpwp) - read_pointer(rpwp)) % N
            IN  /\ Returns(t, "size") => value'[t] = d
                /\ Returns(t, "empty") => (result'[t] <=> d = 0)
                /\ Returns(t, "full") => (result'[t] <=> d = N - 1)
                /\ Returns(t, "capacity") => value'[t] = N - 1
                /\ (\E o \in {"size", "empty", "full", "capacity"} : Returns(t, o))
                     => rpwp' = rpwp /\ elements' = elements
         ]_vars

\* the producer's size() has returned N - 1 and the consumer's full() has
\* returned true, on a word whose write_pointer has wrapped below read_pointer
\* and whose read lock bit is set
C20_Witness ==
    /\ pc[P] = "done" /\ op[P] = "size" /\ value[P] = N - 1
    /\ pc[C] = "done" /\ op[C] = "full" /\ result[C]
    /\ write_pointer(rpwp) < read_pointer(rpwp)
    /\ is_read_locked(rpwp)

====
